---- MODULE Spec2Model ----
(***************************************************************************)
(* Blogicum (blog/views.py): the request handlers of the blog over the     *)
(* relational store of Posts, Categories and Comments.  One action per     *)
(* view; every action is one whole request, run to completion, and leaves  *)
(* its response in resp.  Mutating views are modelled for a POST with a    *)
(* valid form, which is the only request of theirs that writes the store.  *)
(* URL arguments are named as views.py reads them (post_id, comment_id,   *)
(* category, username); blog/urls.py still routes an earlier revision's   *)
(* view names.  Post and Comment are declared in blog/models.py.          *)
(***************************************************************************)
EXTENDS Integers, Sequences, FiniteSets

\* ---------------------------------------------------------------- bounds
\* the last instant of the clock, and the instant the process starts at
MaxTime == 1
StartTime == 0
\* how many posts and comments are ever created
MaxPosts == 1
MaxComments == 1
\* how many posts are ever created where the order of a listing is observed
MaxListed == 2

\* views.py:19
POSTS_IN_PAGE == 10

\* ------------------------------------------------------------- universes
NULL == "null"
\* request.user.username of AnonymousUser is the empty string
Anonymous == ""
Users == {"u1", "u2"}
Viewers == Users \cup {Anonymous}
\* usernames a profile URL may carry: the users and one that names nobody
Usernames == Users \cup {"ghost"}
Slugs == {"c1", "c2"}
\* slugs a category URL may carry: the categories and one that names none
SlugArgs == Slugs \cup {"nx"}
Texts == {"a", "b"}
\* ids a URL may carry: those of the rows ever created and one beyond them
PostIds == 1..(MaxPosts + 1)
CommentIds == 1..(MaxComments + 1)
ListedIds == 1..MaxListed
Times == 0..MaxTime

VARIABLES posts, comments, categories, nextPostId, nextCommentId,
          now, importTime, resp

vars == <<posts, comments, categories, nextPostId, nextCommentId,
          now, importTime, resp>>

store == <<posts, comments, categories, nextPostId, nextCommentId>>

\* ---------------------------------------------------------------- helpers
Min(a, b) == IF a < b THEN a ELSE b

\* posts and comments map the primary keys of the stored rows to the rows
ExistingPosts == DOMAIN posts
ExistingComments == DOMAIN comments

\* every arrangement of the rows of S
Perms(S) ==
    {s \in [1..Cardinality(S) -> S] :
        \A i, j \in 1..Cardinality(S) : i # j => s[i] # s[j]}

IsDescPubDate(s) ==
    \A i, j \in 1..Len(s) :
        i < j => posts[s[i]].pub_date >= posts[s[j]].pub_date

\* The last request and its response: the view (op), request.user (viewer),
\* the URL's post_id / comment_id (0: none) and slug or username ("": none),
\* the author value the submitted input carried, the outcome and, for a
\* listing, the page of post ids.
Response(op, viewer, post_id, comment_id, name, input_author, status, listing) ==
    [op |-> op, viewer |-> viewer, post_id |-> post_id,
     comment_id |-> comment_id, name |-> name,
     input_author |-> input_author, status |-> status, listing |-> listing]

NoResponse == Response("none", Anonymous, 0, 0, "", NULL, "none", <<>>)

\* ------------------------------------------------------------- querysets
\* A queryset: the rows it selects, whether it is an aggregate (GROUP BY)
\* query, and its explicit order_by, if any.

\* Post.Meta.ordering (blog/models.py): the order of a queryset that has no
\* order_by of its own.
Post_Meta_ordering == "-pub_date"

\* get_post_object with annotate() but without its order_by('-pub_date')
get_post_object_unsorted(filter, annotate_sort, t) ==
    [ids |-> IF filter
               THEN {p \in ExistingPosts :
                        /\ posts[p].pub_date < t
                        /\ posts[p].is_published
                        /\ categories[posts[p].category]}
               ELSE ExistingPosts,
     grouped |-> annotate_sort,
     order_by |-> NULL]

\* get_post_object filtering on pub_date alone
get_post_object_no_flags(filter, annotate_sort, t) ==
    [ids |-> IF filter
               THEN {p \in ExistingPosts : posts[p].pub_date < t}
               ELSE ExistingPosts,
     grouped |-> annotate_sort,
     order_by |-> IF annotate_sort THEN "-pub_date" ELSE NULL]

\* get_post_object(filter, annotate_sort), with timezone.now() read as t
get_post_object(filter, annotate_sort, t) ==
    [ids |-> IF filter
               THEN {p \in ExistingPosts :
                        /\ posts[p].pub_date < t
                        /\ posts[p].is_published
                        /\ categories[posts[p].category]}
               ELSE ExistingPosts,
     grouped |-> annotate_sort,
     order_by |-> IF annotate_sort THEN "-pub_date" ELSE NULL]

\* .filter(category__slug=slug)
filter_category_slug(qs, slug) ==
    [qs EXCEPT !.ids = {p \in qs.ids : posts[p].category = slug}]

\* .filter(author_id=user)
filter_author(qs, user) ==
    [qs EXCEPT !.ids = {p \in qs.ids : posts[p].author = user}]

\* The row sequences the database may return for a queryset: sorted by its
\* order_by; else, for an aggregate query, in any order (Meta.ordering is not
\* applied to GROUP BY queries); else sorted by Meta.ordering.
Evaluate(qs) ==
    IF qs.order_by = "-pub_date"
    THEN {s \in Perms(qs.ids) : IsDescPubDate(s)}
    ELSE IF qs.grouped
    THEN Perms(qs.ids)
    ELSE IF Post_Meta_ordering = "-pub_date"
    THEN {s \in Perms(qs.ids) : IsDescPubDate(s)}
    ELSE Perms(qs.ids)

\* paginate_by = POSTS_IN_PAGE: the first page of the rows
Paginate(s) == SubSeq(s, 1, Min(Len(s), POSTS_IN_PAGE))

\* ------------------------------------------------------------------ forms
PostInputs ==
    [author : Users, category : Slugs, is_published : BOOLEAN, pub_date : Times]
CommentInputs == [author : Users, text : Texts]

\* Post() / Comment() before a form has filled them in
NewPost ==
    [author |-> NULL, category |-> NULL, is_published |-> TRUE, pub_date |-> 0]
NewComment == [author |-> NULL, post |-> 0, text |-> NULL]

\* a BlogForm that does not exclude author
BlogForm_with_author(instance, data) ==
    [instance EXCEPT !.author = data.author,
                     !.category = data.category,
                     !.is_published = data.is_published,
                     !.pub_date = data.pub_date]

\* BlogForm: a ModelForm of Post over every field but author
BlogForm(instance, data) ==
    [instance EXCEPT !.category = data.category,
                     !.is_published = data.is_published,
                     !.pub_date = data.pub_date]

\* CommentForm: a ModelForm of Comment over the field text
CommentForm(instance, data) == [instance EXCEPT !.text = data.text]

\* ------------------------------------------------- views: what they compute
\* PostCreateView.form_valid: form.instance.author = self.request.user
PostCreateView_form_valid(instance, viewer) ==
    [instance EXCEPT !.author = viewer]

\* CommentCreateView.form_valid: the author and the post of the new comment
CommentCreateView_form_valid(instance, viewer, post_id) ==
    [instance EXCEPT !.author = viewer, !.post = post_id]

\* PostListView.queryset is a class attribute: get_post_object runs once,
\* when the module is imported, and its timezone.now() is that moment's
PostListView_queryset == get_post_object(TRUE, TRUE, importTime)

\* a get_queryset that does not look the category up
CategoryExists_unchecked(slug) == TRUE

\* CategoryListView.get_object_category_by_slug: get_object_or_404
CategoryExists(slug) == slug \in DOMAIN categories

CategoryListView_get_queryset(slug) ==
    filter_category_slug(get_post_object(TRUE, TRUE, now), slug)

\* PostsDetailView.get_object: the outcome of the detail request
PostsDetailView_get_object(viewer, post_id) ==
    IF post_id \notin ExistingPosts
    THEN "ServerError"   \* QuerySet.get raises Post.DoesNotExist
    ELSE IF /\ posts[post_id].author # viewer
            /\ \/ ~posts[post_id].is_published
               \/ ~categories[posts[post_id].category]
               \/ posts[post_id].pub_date > now
    THEN "NotFound"
    ELSE "OK"

\* ProfileListView.get_object: get_object_or_404(User, username=username)
UserExists(username) == username \in Users

\* a get_queryset that filters the owner's own listing too
ProfileListView_get_queryset_filtered(viewer, username) ==
    filter_author(get_post_object(TRUE, TRUE, now), username)

\* ProfileListView.get_queryset
ProfileListView_get_queryset(viewer, username) ==
    IF viewer # username
    THEN filter_author(get_post_object(TRUE, FALSE, now), username)
    ELSE filter_author(get_post_object(FALSE, TRUE, now), username)

\* ProfileListView.get_context_data:
\* get_object_or_404(User, username=self.request.user.username)
ProfileListView_context_ok(viewer) == UserExists(viewer)

\* a get_object that looks the comment up by its pk alone
CommentMixin_get_object_by_pk(post_id, comment_id) ==
    comment_id \in ExistingComments

\* CommentMixin.get_object:
\* get_object_or_404(Comment, pk=comment_id, post_id=post_id)
CommentMixin_get_object(post_id, comment_id) ==
    /\ comment_id \in ExistingComments
    /\ comments[comment_id].post = post_id

\* LoginRequiredMixin.dispatch: request.user.is_authenticated
IsAuthenticated(viewer) == viewer \in Users

\* PostUpdateView.dispatch: get_post.author != self.request.user
PostUpdateView_is_author(viewer, post_id) == posts[post_id].author = viewer

\* PostDeleteView.dispatch: post.author != self.request.user
PostDeleteView_is_author(viewer, post_id) == posts[post_id].author = viewer

\* a dispatch that lets every logged-in user through
CommentMixin_is_author_any_user(viewer, comment_id) == IsAuthenticated(viewer)

\* CommentMixin.dispatch: comment.author != self.request.user
CommentMixin_is_author(viewer, comment_id) ==
    comments[comment_id].author = viewer

\* on_delete=CASCADE of the comment's foreign key to its post
CascadeDelete(post_id) ==
    [c \in {d \in ExistingComments : comments[d].post # post_id} |->
        comments[c]]

\* ---------------------------------------------------------------- actions
Init ==
    /\ posts = <<>>
    /\ comments = <<>>
    /\ categories = [s \in Slugs |-> TRUE]
    /\ nextPostId = 1
    /\ nextCommentId = 1
    /\ now = StartTime
    /\ importTime = StartTime
    /\ resp = NoResponse

\* PostListView (GET /)
PostList(viewer) ==
    /\ \E l \in Evaluate(PostListView_queryset) :
          resp' = Response("index", viewer, 0, 0, "", NULL, "OK", Paginate(l))
    /\ UNCHANGED <<store, now, importTime>>

\* CategoryListView (GET /category/<slug>/)
CategoryList(viewer, slug) ==
    /\ IF ~CategoryExists(slug)
       THEN resp' = Response("category", viewer, 0, 0, slug, NULL,
                             "NotFound", <<>>)
       ELSE \E l \in Evaluate(CategoryListView_get_queryset(slug)) :
               resp' = Response("category", viewer, 0, 0, slug, NULL,
                                "OK", Paginate(l))
    /\ UNCHANGED <<store, now, importTime>>

\* ProfileListView (GET /profile/<username>/)
ProfileList(viewer, username) ==
    /\ IF ~UserExists(username) \/ ~ProfileListView_context_ok(viewer)
       THEN resp' = Response("profile", viewer, 0, 0, username, NULL,
                             "NotFound", <<>>)
       ELSE \E l \in Evaluate(ProfileListView_get_queryset(viewer, username)) :
               resp' = Response("profile", viewer, 0, 0, username, NULL,
                                "OK", Paginate(l))
    /\ UNCHANGED <<store, now, importTime>>

\* PostsDetailView (GET /posts/<post_id>/)
PostDetail(viewer, post_id) ==
    /\ resp' = Response("detail", viewer, post_id, 0, "", NULL,
                        PostsDetailView_get_object(viewer, post_id), <<>>)
    /\ UNCHANGED <<store, now, importTime>>

\* PostCreateView (POST /posts/create/)
PostCreate(viewer, Inputs, Max) ==
    /\ IF ~IsAuthenticated(viewer)
       THEN /\ resp' = Response("post_create", viewer, 0, 0, "", NULL,
                                "RedirectLogin", <<>>)
            /\ UNCHANGED store
       ELSE \E data \in Inputs :
            /\ nextPostId <= Max
            /\ posts' = [p \in ExistingPosts \cup {nextPostId} |->
                           IF p = nextPostId
                           THEN PostCreateView_form_valid(
                                    BlogForm(NewPost, data), viewer)
                           ELSE posts[p]]
            /\ nextPostId' = nextPostId + 1
            /\ resp' = Response("post_create", viewer, nextPostId, 0, "",
                                data.author, "Redirect", <<>>)
            /\ UNCHANGED <<comments, categories, nextCommentId>>
    /\ UNCHANGED <<now, importTime>>

\* PostUpdateView (POST /posts/<post_id>/edit/)
PostUpdate(viewer, post_id, Inputs) ==
    /\ IF post_id \notin ExistingPosts
       THEN /\ resp' = Response("post_edit", viewer, post_id, 0, "", NULL,
                                "NotFound", <<>>)
            /\ UNCHANGED store
       ELSE IF ~PostUpdateView_is_author(viewer, post_id)
       THEN /\ resp' = Response("post_edit", viewer, post_id, 0, "", NULL,
                                "RedirectDetail", <<>>)
            /\ UNCHANGED store
       ELSE \E data \in Inputs :
            /\ posts' = [posts EXCEPT ![post_id] = BlogForm(@, data)]
            /\ resp' = Response("post_edit", viewer, post_id, 0, "",
                                data.author, "Redirect", <<>>)
            /\ UNCHANGED <<comments, categories, nextPostId, nextCommentId>>
    /\ UNCHANGED <<now, importTime>>

\* PostDeleteView (POST /posts/<post_id>/delete/)
PostDelete(viewer, post_id) ==
    /\ IF \/ post_id \notin ExistingPosts
          \/ ~PostDeleteView_is_author(viewer, post_id)
       THEN /\ resp' = Response("post_delete", viewer, post_id, 0, "", NULL,
                                "NotFound", <<>>)
            /\ UNCHANGED store
       ELSE /\ posts' = [p \in ExistingPosts \ {post_id} |-> posts[p]]
            /\ comments' = CascadeDelete(post_id)
            /\ resp' = Response("post_delete", viewer, post_id, 0, "", NULL,
                                "Redirect", <<>>)
            /\ UNCHANGED <<categories, nextPostId, nextCommentId>>
    /\ UNCHANGED <<now, importTime>>

\* CommentCreateView (POST /posts/<post_id>/comment/)
CommentCreate(viewer, post_id, Inputs) ==
    /\ IF ~IsAuthenticated(viewer)
       THEN /\ resp' = Response("comment_create", viewer, post_id, 0, "",
                                NULL, "RedirectLogin", <<>>)
            /\ UNCHANGED store
       ELSE IF post_id \notin ExistingPosts
       THEN /\ resp' = Response("comment_create", viewer, post_id, 0, "",
                                NULL, "NotFound", <<>>)
            /\ UNCHANGED store
       ELSE \E data \in Inputs :
            /\ nextCommentId <= MaxComments
            /\ comments' = [c \in ExistingComments \cup {nextCommentId} |->
                              IF c = nextCommentId
                              THEN CommentCreateView_form_valid(
                                       CommentForm(NewComment, data),
                                       viewer, post_id)
                              ELSE comments[c]]
            /\ nextCommentId' = nextCommentId + 1
            /\ resp' = Response("comment_create", viewer, post_id,
                                nextCommentId, "", data.author,
                                "Redirect", <<>>)
            /\ UNCHANGED <<posts, categories, nextPostId>>
    /\ UNCHANGED <<now, importTime>>

\* CommentUpdateView (POST /posts/<post_id>/edit_comment/<comment_id>/)
CommentUpdate(viewer, post_id, comment_id, Inputs) ==
    /\ IF ~CommentMixin_get_object(post_id, comment_id)
       THEN /\ resp' = Response("comment_edit", viewer, post_id, comment_id,
                                "", NULL, "NotFound", <<>>)
            /\ UNCHANGED store
       ELSE IF ~CommentMixin_is_author(viewer, comment_id)
       THEN /\ resp' = Response("comment_edit", viewer, post_id, comment_id,
                                "", NULL, "RedirectDetail", <<>>)
            /\ UNCHANGED store
       ELSE \E data \in Inputs :
            /\ comments' = [comments EXCEPT
                              ![comment_id] = CommentForm(@, data)]
            /\ resp' = Response("comment_edit", viewer, post_id, comment_id,
                                "", data.author, "Redirect", <<>>)
            /\ UNCHANGED <<posts, categories, nextPostId, nextCommentId>>
    /\ UNCHANGED <<now, importTime>>

\* CommentDeleteView (POST /posts/<post_id>/delete_comment/<comment_id>/)
CommentDelete(viewer, post_id, comment_id) ==
    /\ IF ~CommentMixin_get_object(post_id, comment_id)
       THEN /\ resp' = Response("comment_delete", viewer, post_id,
                                comment_id, "", NULL, "NotFound", <<>>)
            /\ UNCHANGED store
       ELSE IF ~CommentMixin_is_author(viewer, comment_id)
       THEN /\ resp' = Response("comment_delete", viewer, post_id,
                                comment_id, "", NULL, "RedirectDetail", <<>>)
            /\ UNCHANGED store
       ELSE /\ comments' = [c \in ExistingComments \ {comment_id} |->
                              comments[c]]
            /\ resp' = Response("comment_delete", viewer, post_id,
                                comment_id, "", NULL, "Redirect", <<>>)
            /\ UNCHANGED <<posts, categories, nextPostId, nextCommentId>>
    /\ UNCHANGED <<now, importTime>>

\* CategoryAdmin: is_published is list_editable in the admin site
AdminCategoryEdit(slug, flag) ==
    /\ categories[slug] # flag
    /\ categories' = [categories EXCEPT ![slug] = flag]
    /\ resp' = NoResponse
    /\ UNCHANGED <<posts, comments, nextPostId, nextCommentId, now, importTime>>

\* time passes, up to the instant last
Tick(last) ==
    /\ now < last
    /\ now' = now + 1
    /\ resp' = NoResponse
    /\ UNCHANGED <<store, importTime>>

\* the process is restarted: views.py is imported again
Restart ==
    /\ importTime # now
    /\ importTime' = now
    /\ resp' = NoResponse
    /\ UNCHANGED <<store, now>>

Next ==
    \/ \E v \in Viewers : PostList(v)
    \/ \E v \in Viewers, s \in SlugArgs : CategoryList(v, s)
    \/ \E v \in Viewers, u \in Usernames : ProfileList(v, u)
    \/ \E v \in Viewers, p \in PostIds : PostDetail(v, p)
    \/ \E v \in Viewers : PostCreate(v, PostInputs, MaxPosts)
    \/ \E v \in Viewers, p \in PostIds : PostUpdate(v, p, PostInputs)
    \/ \E v \in Viewers, p \in PostIds : PostDelete(v, p)
    \/ \E v \in Viewers, p \in PostIds : CommentCreate(v, p, CommentInputs)
    \/ \E v \in Viewers, p \in PostIds, c \in CommentIds :
          CommentUpdate(v, p, c, CommentInputs)
    \/ \E v \in Viewers, p \in PostIds, c \in CommentIds :
          CommentDelete(v, p, c)
    \/ \E s \in Slugs, f \in BOOLEAN : AdminCategoryEdit(s, f)
    \/ Tick(MaxTime)
    \/ Restart

\* the whole application
Spec == Init /\ [][Next]_vars

\* The listing and detail views over every post the forms can produce, as
\* time passes and categories are published and withdrawn; nobody comments.
\* The form's input names one fixed author: BlogForm never reads it.
ViewPostInputs == {d \in PostInputs : d.author = "u1"}

NextView ==
    \/ \E v \in Viewers : PostList(v)
    \/ \E v \in Viewers, s \in SlugArgs : CategoryList(v, s)
    \/ \E v \in Viewers, u \in Usernames : ProfileList(v, u)
    \/ \E v \in Viewers, p \in PostIds : PostDetail(v, p)
    \/ \E v \in Viewers : PostCreate(v, ViewPostInputs, MaxPosts)
    \/ \E v \in Viewers, p \in PostIds : PostUpdate(v, p, ViewPostInputs)
    \/ \E v \in Viewers, p \in PostIds : PostDelete(v, p)
    \/ \E s \in Slugs, f \in BOOLEAN : AdminCategoryEdit(s, f)
    \/ Tick(MaxTime)
    \/ Restart

SpecView == Init /\ [][NextView]_vars

\* The listings of several published posts of one published category, whose
\* authors and pub_dates vary, as time passes; the clock runs one instant
\* past the last pub_date, so that every post can lie in the past.
ListedPostInputs ==
    {d \in PostInputs :
        d.author = "u1" /\ d.category = "c1" /\ d.is_published}

NextOrder ==
    \/ \E v \in Viewers : PostList(v)
    \/ \E v \in Viewers, s \in SlugArgs : CategoryList(v, s)
    \/ \E v \in Viewers, u \in Usernames : ProfileList(v, u)
    \/ \E v \in Viewers : PostCreate(v, ListedPostInputs, MaxListed)
    \/ \E v \in Viewers, p \in ListedIds : PostUpdate(v, p, ListedPostInputs)
    \/ \E v \in Viewers, p \in ListedIds : PostDelete(v, p)
    \/ Tick(MaxTime + 1)
    \/ Restart

SpecOrder == Init /\ [][NextOrder]_vars

\* The writing views, with the clock and the categories left alone and the
\* post form's category and pub_date fixed: no writing view reads them.
EditPostInputs == {d \in PostInputs : d.category = "c1" /\ d.pub_date = 0}

NextEdit ==
    \/ \E v \in Viewers, p \in PostIds : PostDetail(v, p)
    \/ \E v \in Viewers, u \in Usernames : ProfileList(v, u)
    \/ \E v \in Viewers : PostCreate(v, EditPostInputs, MaxPosts)
    \/ \E v \in Viewers, p \in PostIds : PostUpdate(v, p, EditPostInputs)
    \/ \E v \in Viewers, p \in PostIds : PostDelete(v, p)
    \/ \E v \in Viewers, p \in PostIds : CommentCreate(v, p, CommentInputs)
    \/ \E v \in Viewers, p \in PostIds, c \in CommentIds :
          CommentUpdate(v, p, c, CommentInputs)
    \/ \E v \in Viewers, p \in PostIds, c \in CommentIds :
          CommentDelete(v, p, c)

SpecEdit == Init /\ [][NextEdit]_vars

\* ----------------------------------------------------------------- claims
\* the visibility rule of the specification, for a viewer who is not the
\* post's author
RuleVisible(p) ==
    /\ posts[p].is_published
    /\ categories[posts[p].category]
    /\ posts[p].pub_date <= now

Unpublished(p) == ~posts[p].is_published \/ ~categories[posts[p].category]

InListing(p) == \E i \in 1..Len(resp.listing) : resp.listing[i] = p

ListingOps == {"index", "category", "profile"}

\* C1: an unpublished post (its own flag or its category's is off) never
\* reaches an anonymous viewer: it is in no index, category or profile
\* listing served to them, and its detail request ends in NotFound.
C1_UnpublishedHiddenFromAnonymous ==
    resp.viewer = Anonymous =>
        /\ resp.op \in ListingOps =>
              \A p \in ExistingPosts : Unpublished(p) => ~InListing(p)
        /\ (/\ resp.op = "detail"
            /\ resp.post_id \in ExistingPosts
            /\ Unpublished(resp.post_id)) => resp.status = "NotFound"

\* an anonymous viewer was served the listing of a published category that
\* holds a past-dated post whose own flag is off
C1_Witness ==
    /\ resp.op = "category"
    /\ resp.viewer = Anonymous
    /\ resp.status = "OK"
    /\ categories[resp.name]
    /\ \E p \in ExistingPosts :
          /\ posts[p].category = resp.name
          /\ ~posts[p].is_published
          /\ posts[p].pub_date < now

\* C2: while a post's pub_date lies in the future, nobody but its author
\* sees it (no listing served to them holds it, its detail is NotFound) and
\* its author does (detail succeeds, own profile lists it); right after a
\* viewer creates such a post, the index does not hold it and the creator's
\* own profile does.
C2_FuturePostOnlyForAuthor ==
    \A p \in ExistingPosts :
        posts[p].pub_date > now =>
            /\ (resp.op \in ListingOps /\ resp.viewer # posts[p].author)
                   => ~InListing(p)
            /\ (resp.op = "detail" /\ resp.post_id = p) =>
                   resp.status =
                       IF resp.viewer = posts[p].author
                       THEN "OK" ELSE "NotFound"
            /\ (/\ resp.op = "profile"
                /\ resp.viewer = posts[p].author
                /\ resp.name = posts[p].author) =>
                   resp.status = "OK" /\ InListing(p)
            /\ (resp.op = "post_create" /\ resp.post_id = p) =>
                   /\ \A l \in Evaluate(PostListView_queryset) :
                         \A i \in 1..Len(l) : l[i] # p
                   /\ \A l \in Evaluate(ProfileListView_get_queryset(
                                            resp.viewer, resp.viewer)) :
                         \E i \in 1..Len(l) : l[i] = p

\* the author was served their own profile and it lists their future post
C2_Witness ==
    /\ resp.op = "profile"
    /\ resp.status = "OK"
    /\ resp.viewer = resp.name
    /\ \E p \in ExistingPosts :
          /\ posts[p].pub_date > now
          /\ posts[p].author = resp.viewer
          /\ InListing(p)

\* the request of the step was an edit or delete of a post or comment by
\* someone who is not its author (or of one that does not exist)
NonAuthorWrite ==
    \/ /\ resp'.op \in {"post_edit", "post_delete"}
       /\ \/ resp'.post_id \notin DOMAIN posts
          \/ posts[resp'.post_id].author # resp'.viewer
    \/ /\ resp'.op \in {"comment_edit", "comment_delete"}
       /\ \/ resp'.comment_id \notin DOMAIN comments
          \/ comments[resp'.comment_id].author # resp'.viewer

\* C3: an edit or delete request by a viewer who is not the author of the
\* post or comment leaves every post and every comment as it was.
C3_NonAuthorWriteChangesNothing ==
    [][NonAuthorWrite => (posts' = posts /\ comments' = comments)]_vars

\* a logged-in user asked to delete another user's comment
C3_Witness ==
    /\ resp.op = "comment_delete"
    /\ resp.viewer \in Users
    /\ resp.comment_id \in ExistingComments
    /\ comments[resp.comment_id].post = resp.post_id
    /\ comments[resp.comment_id].author # resp.viewer

\* C4: a created post or comment has the submitting viewer as its author,
\* whatever author the input carried, and an edit through the update form
\* keeps the author.
C4_AuthorIsSubmitter ==
    [][/\ (resp'.op = "post_create" /\ resp'.status = "Redirect") =>
             posts'[resp'.post_id].author = resp'.viewer
       /\ (resp'.op = "comment_create" /\ resp'.status = "Redirect") =>
             comments'[resp'.comment_id].author = resp'.viewer
       /\ (resp'.op = "post_edit" /\ resp'.status = "Redirect") =>
             posts'[resp'.post_id].author = posts[resp'.post_id].author
       /\ (resp'.op = "comment_edit" /\ resp'.status = "Redirect") =>
             comments'[resp'.comment_id].author =
                 comments[resp'.comment_id].author]_vars

\* a post was edited through a form whose input named another user as author
C4_Witness ==
    /\ resp.op = "post_edit"
    /\ resp.status = "Redirect"
    /\ resp.input_author # resp.viewer
    /\ posts[resp.post_id].author = resp.viewer

\* C5: a category listing for a slug that no category has ends in NotFound,
\* never in a listing.
C5_UnknownSlugNotFound ==
    (resp.op = "category" /\ resp.name \notin DOMAIN categories) =>
        resp.status = "NotFound" /\ resp.listing = <<>>

\* the unknown slug was requested while published posts exist
C5_Witness ==
    /\ resp.op = "category"
    /\ resp.name \notin DOMAIN categories
    /\ \E p \in ExistingPosts : RuleVisible(p) /\ posts[p].pub_date < now

\* the rows of a listing, as a set
ListingSet == {resp.listing[i] : i \in 1..Len(resp.listing)}

\* C6: a profile request for an existing user succeeds for every viewer and
\* lists exactly that user's posts: all of them for the owner, the visible
\* ones (published, category published, pub_date not in the future) for
\* anyone else.
C6_ProfileListsExactly ==
    (resp.op = "profile" /\ resp.name \in Users) =>
        /\ resp.status = "OK"
        /\ ListingSet =
              {p \in ExistingPosts :
                  /\ posts[p].author = resp.name
                  /\ resp.viewer # resp.name => RuleVisible(p)}

\* C7: to a viewer who is not its author a post is visible exactly when it is
\* published, its category is published and pub_date <= now, and the index
\* and the detail view agree on it at every instant.
C7_IndexAgreesWithDetail ==
    resp.op = "index" =>
        \A p \in ExistingPosts :
            posts[p].author # resp.viewer =>
                /\ InListing(p) <=> RuleVisible(p)
                /\ InListing(p) <=>
                       (PostsDetailView_get_object(resp.viewer, p) = "OK")

C9_MissingResourceNotFound ==
    [][(\/ resp'.op \in {"detail", "comment_create"}
           /\ resp'.post_id \notin DOMAIN posts
        \/ resp'.op \in {"comment_edit", "comment_delete"}
           /\ resp'.comment_id \notin DOMAIN comments
        \/ resp'.op = "profile" /\ resp'.name \notin Users)
       => (resp'.status = "NotFound" /\ store' = store)]_vars

====
